---- MODULE Spec2Model ----
(***************************************************************************)
(* A model of src/popup/popup.js: the popup of the eScriptorium YOLO       *)
(* extension.  The popup receives 'imageURL' messages, loads the image,    *)
(* and on the image's load event runs the annotation pipeline              *)
(*   getBlocksUrl -> createTypes -> updateValidBlockTypes -> detect ->     *)
(*   createBlocks.                                                         *)
(* Numbers are exact rationals <<n, d>> (d > 0, lowest terms); the         *)
(* rounding of the floating point numbers of the program is not modelled.  *)
(***************************************************************************)
EXTENDS Integers, Sequences, FiniteSets, TLC

(***************************************************************************)
(* Rational arithmetic.                                                    *)
(***************************************************************************)
Abs(n) == IF n < 0 THEN -n ELSE n

RECURSIVE GCD(_, _)
GCD(a, b) == IF b = 0 THEN a ELSE GCD(b, a % b)

Rat(n, d) ==
  LET g == GCD(Abs(n), Abs(d))
      s == IF d < 0 THEN -1 ELSE 1
  IN  <<(s * n) \div g, (s * d) \div g>>

I(n) == <<n, 1>>
RAdd(a, b) == Rat(a[1] * b[2] + b[1] * a[2], a[2] * b[2])
RSub(a, b) == Rat(a[1] * b[2] - b[1] * a[2], a[2] * b[2])
RMul(a, b) == Rat(a[1] * b[1], a[2] * b[2])
RDiv(a, b) == Rat(a[1] * b[2], a[2] * b[1])
RLess(a, b) == a[1] * b[2] < b[1] * a[2]
RLeq(a, b) == a[1] * b[2] <= b[1] * a[2]
RMax(a, b) == IF RLess(a, b) THEN b ELSE a
RMin(a, b) == IF RLess(b, a) THEN b ELSE a

(***************************************************************************)
(* The label list and the parameters of the detection call.                *)
(***************************************************************************)
labels == <<"a", "b">>
numClass == Len(labels)
NumAttr == 4 + numClass

maxOutputSize == 500
iouThreshold == <<9, 20>>
scoreThreshold == <<1, 5>>

(***************************************************************************)
(* detect: the decoding of the raw output.  A raw output res is            *)
(* [N |-> n, data |-> d], d the row-major data of a tensor shaped          *)
(* [1, 4 + numClass, n]; detections and attributes are numbered from 0.    *)
(***************************************************************************)
transRes(res) ==
  [N |-> res.N,
   data |-> [k \in 1..(NumAttr * res.N) |->
               res.data[((k - 1) % NumAttr) * res.N + ((k - 1) \div NumAttr) + 1]]]

\* transRes.slice([0, 0, a], [-1, -1, 1]) at detection i
Attr(tr, i, a) == tr.data[i * NumAttr + a + 1]

\* boxes with the corners in the order (x1, y1, x2, y2)
boxes_xyxy(tr) ==
  LET w(i) == Attr(tr, i, 2)
      h(i) == Attr(tr, i, 3)
      x1(i) == RSub(Attr(tr, i, 0), RDiv(w(i), I(2)))
      y1(i) == RSub(Attr(tr, i, 1), RDiv(h(i), I(2)))
      at(i, c) == CASE c = 0 -> x1(i)
                    [] c = 1 -> y1(i)
                    [] c = 2 -> RAdd(x1(i), w(i))
                    [] c = 3 -> RAdd(y1(i), h(i))
  IN  [rank |-> IF tr.N = 1 THEN 1 ELSE 2,
       data |-> [k \in 1..(4 * tr.N) |-> at((k - 1) \div 4, (k - 1) % 4)]]

boxes(tr) ==
  LET w(i) == Attr(tr, i, 2)
      h(i) == Attr(tr, i, 3)
      x1(i) == RSub(Attr(tr, i, 0), RDiv(w(i), I(2)))
      y1(i) == RSub(Attr(tr, i, 1), RDiv(h(i), I(2)))
      at(i, c) == CASE c = 0 -> y1(i)
                    [] c = 1 -> x1(i)
                    [] c = 2 -> RAdd(y1(i), h(i))
                    [] c = 3 -> RAdd(x1(i), w(i))
  IN  [rank |-> IF tr.N = 1 THEN 1 ELSE 2,
       data |-> [k \in 1..(4 * tr.N) |-> at((k - 1) \div 4, (k - 1) % 4)]]

\* rawScores = transRes.slice([0, 0, 4], [-1, -1, numClass]).squeeze(0)
rawScores(tr, i, c) == Attr(tr, i, 4 + c)

scores(tr) ==
  [k \in 1..tr.N |->
     LET i == k - 1
         m == CHOOSE c \in 0..(numClass - 1) :
                \A c2 \in 0..(numClass - 1) : RLeq(rawScores(tr, i, c2), rawScores(tr, i, c))
     IN  rawScores(tr, i, m)]

classes(tr) ==
  [k \in 1..tr.N |->
     LET i == k - 1
     IN  CHOOSE c \in 0..(numClass - 1) :
           /\ \A c2 \in 0..(numClass - 1) : RLeq(rawScores(tr, i, c2), rawScores(tr, i, c))
           /\ \A c2 \in 0..(c - 1) : RLess(rawScores(tr, i, c2), rawScores(tr, i, c))]

(***************************************************************************)
(* tf.image.nonMaxSuppressionAsync: greedy non-maximum suppression over    *)
(* boxes (y1, x1, y2, x2) and scores; the result is the sequence of the    *)
(* selected detection indices in selection order.  The library is not part *)
(* of the repository.  What it does with a score equal to the score        *)
(* threshold and with an IoU equal to the IoU threshold is left open:      *)
(* tfConvention holds one of the four conventions, fixed from the start.   *)
(***************************************************************************)
VARIABLE tfConvention

Conventions == [scoreInclusive : BOOLEAN, iouInclusive : BOOLEAN]

BoxOf(bd, i) == [y1 |-> bd[4 * i + 1], x1 |-> bd[4 * i + 2],
                 y2 |-> bd[4 * i + 3], x2 |-> bd[4 * i + 4]]

Area(b) ==
  LET hh == RSub(RMax(b.y1, b.y2), RMin(b.y1, b.y2))
      ww == RSub(RMax(b.x1, b.x2), RMin(b.x1, b.x2))
  IN  RMul(hh, ww)

Intersection(a, b) ==
  LET iy1 == RMax(RMin(a.y1, a.y2), RMin(b.y1, b.y2))
      ix1 == RMax(RMin(a.x1, a.x2), RMin(b.x1, b.x2))
      iy2 == RMin(RMax(a.y1, a.y2), RMax(b.y1, b.y2))
      ix2 == RMin(RMax(a.x1, a.x2), RMax(b.x1, b.x2))
  IN  RMul(RMax(RSub(iy2, iy1), I(0)), RMax(RSub(ix2, ix1), I(0)))

Union(a, b) == RSub(RAdd(Area(a), Area(b)), Intersection(a, b))

\* IoU(a, b) > t, for t >= 0: the boxes intersect, and inter > t * union
IoUExceeds(a, b, t) ==
  /\ RLess(I(0), Intersection(a, b))
  /\ RLess(RMul(t, Union(a, b)), Intersection(a, b))

\* IoU(a, b) = t, for t > 0
IoUEquals(a, b, t) ==
  /\ RLess(I(0), Intersection(a, b))
  /\ RMul(t, Union(a, b)) = Intersection(a, b)

\* a selected box a suppresses the candidate box b
Suppresses(a, b, t) ==
  \/ IoUExceeds(a, b, t)
  \/ tfConvention.iouInclusive /\ IoUEquals(a, b, t)

\* a detection of score s is a candidate
IsCandidate(s, scoreT) ==
  \/ RLess(scoreT, s)
  \/ tfConvention.scoreInclusive /\ s = scoreT

\* detection i is taken before detection j: higher score, ties by index
Before(sc, i, j) ==
  \/ RLess(sc[j + 1], sc[i + 1])
  \/ sc[j + 1] = sc[i + 1] /\ i < j

\* The value of the one element of a set.  Binding an intermediate result as
\* the element of a singleton, {F(v) : v \in {e}}, has e computed once.
The(S) == CHOOSE r \in S : TRUE

\* the candidates in the order they are taken
SortByScore(sc, S) ==
  The({[k \in 1..Cardinality(S) |-> CHOOSE i \in S : rank[i] = k - 1] :
         rank \in {[i \in S |-> Cardinality({j \in S : Before(sc, j, i)})]}})

\* one turn of the loop: candidate i is selected unless the cap is reached or
\* a selected detection suppresses it
Select(bd, selected, i, maxOut, iouT) ==
  IF Len(selected) >= maxOut THEN selected
  ELSE IF \E n \in 1..Len(selected) :
            Suppresses(BoxOf(bd, selected[n]), BoxOf(bd, i), iouT)
       THEN selected
       ELSE Append(selected, i)

\* the loop over order[lo..hi], written by halves to keep the evaluation shallow
RECURSIVE Greedy(_, _, _, _, _, _, _)
Greedy(bd, order, lo, hi, selected, maxOut, iouT) ==
  IF lo > hi THEN selected
  ELSE IF lo = hi THEN Select(bd, selected, order[lo], maxOut, iouT)
  ELSE The({Greedy(bd, order, ((lo + hi) \div 2) + 1, hi, left, maxOut, iouT) :
              left \in {Greedy(bd, order, lo, (lo + hi) \div 2, selected, maxOut, iouT)}})

nonMaxSuppression(bd, sc, maxOut, iouT, scoreT) ==
  The({Greedy(b, order, 1, Len(order), <<>>, maxOut, iouT) :
         b \in {bd},
         order \in {SortByScore(s, {i \in 0..(Len(s) - 1) : IsCandidate(s[i + 1], scoreT)}) :
                      s \in {sc}}})

\* the suppression call with the two thresholds in each other's place
nms_swapped(b, sc) ==
  nonMaxSuppression(b.data, sc, maxOutputSize, scoreThreshold, iouThreshold)

\* line 458: the suppression call of detect
nms(b, sc) == nonMaxSuppression(b.data, sc, maxOutputSize, iouThreshold, scoreThreshold)

\* boxes.gather(nms, 0).dataSync(), and the same for scores and classes
gatherBoxes(b, idx) ==
  [k \in 1..(4 * Len(idx)) |-> b.data[4 * idx[((k - 1) \div 4) + 1] + ((k - 1) % 4) + 1]]
gather(v, idx) == [k \in 1..Len(idx) |-> v[idx[k] + 1]]

(***************************************************************************)
(* preprocess: the ratios of the padded square to the source's sides.      *)
(***************************************************************************)
preprocess(source, modelWidth, modelHeight) ==
  LET w == source[1]
      h == source[2]
      maxSize == IF w > h THEN w ELSE h
  IN  <<RDiv(I(maxSize), I(w)), RDiv(I(maxSize), I(h))>>

(***************************************************************************)
(* The state of the popup.                                                 *)
(***************************************************************************)
VARIABLES
  model,                \* the loaded model, or Null
  apiToken,             \* the value of the api-token field
  ImageOriginalWidth,
  ImageOriginalHeight,
  typeMappings,         \* label -> pk, Undefined where the label has no entry
  img,                  \* the selected-image element: its loaded picture, the
                        \* picture its src is loading, and its onload handler
  pass,                 \* the runs of the onload pipeline, in the order started
  nPasses,
  nMessages,            \* 'imageURL' messages received
  remote,               \* the blocks the server has created, oldest first, by
                        \* the pass whose createBlocks sent them
  requests,             \* the requests sent to the blocks url, oldest first,
                        \* by the pass that sent them
  numTensors,           \* live tensors of the engine
  openScopes,           \* engine scopes started and not ended
  loadedMessages,       \* 'Image loaded successfully' messages displayed
  fnIn, fnOut           \* argument and result of a function applied on its own

vars == <<model, apiToken, ImageOriginalWidth, ImageOriginalHeight, typeMappings,
          img, pass, nPasses, nMessages, remote, requests, numTensors,
          openScopes, loadedMessages, fnIn, fnOut, tfConvention>>

popupVars == <<model, apiToken, ImageOriginalWidth, ImageOriginalHeight,
               typeMappings, img, pass, nPasses, nMessages, remote, requests,
               numTensors, openScopes, loadedMessages>>

Null == "null"
Undefined == "undefined"
Labels == {labels[c] : c \in 1..numClass}

MaxMessages == 2
Passes == 1..MaxMessages

\* the shape of the loaded model's input: model.inputs[0].shape.slice(1, 3)
ModelShape == <<4, 4>>
Models == {"m"}
Tokens == {"tok"}
Pks == {"pk1", "pk2"}
PageId == "page"

\* a raw output from its detections <<cx, cy, w, h, score of label 1, ...>>
MkRes(dets) ==
  [N |-> Len(dets),
   data |-> [k \in 1..(NumAttr * Len(dets)) |->
               dets[((k - 1) % Len(dets)) + 1][((k - 1) \div Len(dets)) + 1]]]

\* what 'imageURL' messages carry: the page's size and the picture at imageUrl
Requests ==
  {[originalSize |-> <<0, 0>>, picture |-> <<4, 2>>],
   [originalSize |-> <<8, 4>>, picture |-> <<4, 2>>]}

\* what the model returns in the runs of the pipeline
DetA == <<I(1), I(1), I(2), I(1), <<9, 10>>, <<1, 10>>>>
DetB == <<I(3), I(1), I(1), I(2), <<1, 10>>, <<4, 5>>>>
DetLow == <<I(2), I(1), I(1), I(1), <<1, 10>>, <<1, 10>>>>
RawOutputs == {MkRes(<<DetA>>), MkRes(<<DetA, DetB>>), MkRes(<<DetLow, DetLow>>)}

IdlePass ==
  [pc |-> "idle", apiToken |-> "", label |-> 0, det |-> <<>>, blocks |-> <<>>,
   k |-> 0, issued |-> 0, errors |-> 0, success |-> 0, reloads |-> 0]

InitPopup ==
  /\ model = Null
  /\ apiToken = ""
  /\ ImageOriginalWidth = 0
  /\ ImageOriginalHeight = 0
  /\ typeMappings = [l \in Labels |-> Undefined]
  /\ img = [picture |-> <<>>, loading |-> <<>>, onload |-> [kind |-> "none", apiToken |-> ""]]
  /\ pass = [p \in Passes |-> IdlePass]
  /\ nPasses = 0
  /\ nMessages = 0
  /\ remote = [p \in Passes |-> <<>>]
  /\ requests = [p \in Passes |-> <<>>]
  /\ numTensors = 0
  /\ openScopes = 0
  /\ loadedMessages = 0

NotApplied == [done |-> FALSE, value |-> <<>>]
Applied(v) == [done |-> TRUE, value |-> v]

Init ==
  /\ InitPopup
  /\ tfConvention \in Conventions
  /\ fnIn = <<>>
  /\ fnOut = NotApplied

(***************************************************************************)
(* renderBoxes: the surviving boxes in the page's coordinates, each with   *)
(* the type of its class.                                                  *)
(***************************************************************************)
\* renderBoxes scaling both axes by the x ratio and the width
renderBoxes_xScaleOnly(boxes_data, scores_data, classes_data, ratios, modelWidth, modelHeight) ==
  [k \in 1..Len(scores_data) |->
     LET i == k - 1
         sx == RMul(ratios[1], RDiv(I(ImageOriginalWidth), I(modelWidth)))
         y1 == RMul(boxes_data[4 * i + 1], sx)
         x1 == RMul(boxes_data[4 * i + 2], sx)
         y2 == RMul(boxes_data[4 * i + 3], sx)
         x2 == RMul(boxes_data[4 * i + 4], sx)
     IN  [box |-> <<<<x1, y1>>, <<x2, y1>>, <<x2, y2>>, <<x1, y2>>>>,
          typology |-> typeMappings[labels[classes_data[k] + 1]]]]

renderBoxes(boxes_data, scores_data, classes_data, ratios, modelWidth, modelHeight) ==
  [k \in 1..Len(scores_data) |->
     LET i == k - 1
         sx == RMul(ratios[1], RDiv(I(ImageOriginalWidth), I(modelWidth)))
         sy == RMul(ratios[2], RDiv(I(ImageOriginalHeight), I(modelHeight)))
         y1 == RMul(boxes_data[4 * i + 1], sy)
         x1 == RMul(boxes_data[4 * i + 2], sx)
         y2 == RMul(boxes_data[4 * i + 3], sy)
         x2 == RMul(boxes_data[4 * i + 4], sx)
     IN  [box |-> <<<<x1, y1>>, <<x2, y1>>, <<x2, y2>>, <<x1, y2>>>>,
          typology |-> typeMappings[labels[classes_data[k] + 1]]]]

(***************************************************************************)
(* The popup's handlers.                                                   *)
(***************************************************************************)
\* both chrome.runtime.onMessage listeners, in the order they were added, on an
\* 'imageURL' message of the extension
ImageURLMessage(request) ==
  /\ nMessages < MaxMessages
  /\ nMessages' = nMessages + 1
  /\ ImageOriginalWidth' = request.originalSize[1]
  /\ ImageOriginalHeight' = request.originalSize[2]
  /\ img' = [img EXCEPT
               !.loading = request.picture,
               !.onload = IF apiToken = ""
                          THEN [kind |-> "display", apiToken |-> ""]
                          ELSE [kind |-> "pipeline", apiToken |-> apiToken]]
  /\ UNCHANGED <<model, apiToken, typeMappings, pass, nPasses, remote, requests,
                 numTensors, openScopes, loadedMessages, fnIn, fnOut, tfConvention>>

\* the model-files change handler, when loadModelFromFiles loads a model
LoadModel(m) ==
  /\ model' = m
  /\ UNCHANGED <<apiToken, ImageOriginalWidth, ImageOriginalHeight, typeMappings,
                 img, pass, nPasses, nMessages, remote, requests, numTensors,
                 openScopes, loadedMessages, fnIn, fnOut, tfConvention>>

\* the user edits the api-token field
SetApiToken(t) ==
  /\ apiToken' = t
  /\ UNCHANGED <<model, ImageOriginalWidth, ImageOriginalHeight, typeMappings,
                 img, pass, nPasses, nMessages, remote, requests, numTensors,
                 openScopes, loadedMessages, fnIn, fnOut, tfConvention>>

\* the image's load event: img.onload up to its first await, getBlocksUrl()
ImgLoad ==
  /\ img.loading # <<>>
  /\ img' = [img EXCEPT !.picture = img.loading, !.loading = <<>>]
  /\ loadedMessages' = loadedMessages + 1
  /\ IF img.onload.kind = "pipeline" /\ model # Null
     THEN /\ nPasses' = nPasses + 1
          /\ pass' = [pass EXCEPT ![nPasses + 1] =
                        [IdlePass EXCEPT !.pc = "getBlocksUrl",
                                         !.apiToken = img.onload.apiToken]]
     ELSE UNCHANGED <<nPasses, pass>>
  /\ UNCHANGED <<model, apiToken, ImageOriginalWidth, ImageOriginalHeight,
                 typeMappings, nMessages, remote, requests, numTensors,
                 openScopes, fnIn, fnOut, tfConvention>>

\* the catch of img.onload: one error message
Raised(ps) == [ps EXCEPT !.pc = "raised", !.errors = @ + 1, !.det = <<>>, !.k = 0]

\* the end of the try block of img.onload: the success message and the reload
Finished(ps) ==
  [ps EXCEPT !.pc = "done", !.success = @ + 1, !.reloads = @ + 1, !.det = <<>>, !.k = 0]

\* getBlocksUrl: the chrome.tabs.query callback.  Its throw, on a url that is
\* no document page, happens in the callback: the promise is never settled.
GetBlocksUrlCallback(p, urlMatches) ==
  /\ pass[p].pc = "getBlocksUrl"
  /\ pass' = [pass EXCEPT ![p] =
                IF urlMatches
                THEN [@ EXCEPT !.pc = "createTypes", !.label = 1]
                ELSE [@ EXCEPT !.pc = "stuck"]]
  /\ UNCHANGED <<model, apiToken, ImageOriginalWidth, ImageOriginalHeight,
                 typeMappings, img, nPasses, nMessages, remote, requests,
                 numTensors, openScopes, loadedMessages, fnIn, fnOut, tfConvention>>

\* createTypes: the answer to the request for one label; ok with the type's pk,
\* or not ok or failed ("none"), which is logged and nothing more
CreateTypesResponse(p, pk) ==
  /\ pass[p].pc = "createTypes"
  /\ typeMappings' = IF pk = "none" THEN typeMappings
                     ELSE [typeMappings EXCEPT ![labels[pass[p].label]] = pk]
  /\ pass' = [pass EXCEPT ![p] =
                IF pass[p].label < numClass
                THEN [@ EXCEPT !.label = @ + 1]
                ELSE [@ EXCEPT !.pc = "updateValidBlockTypes", !.label = 0]]
  /\ UNCHANGED <<model, apiToken, ImageOriginalWidth, ImageOriginalHeight, img,
                 nPasses, nMessages, remote, requests, numTensors, openScopes,
                 loadedMessages, fnIn, fnOut, tfConvention>>

\* updateValidBlockTypes answers (its failures are logged only), and detect runs
\* to its await: startScope, preprocess, model.execute returning res, the decoding
DetectStart(p, res) ==
  /\ pass[p].pc = "updateValidBlockTypes"
  /\ LET ratios == preprocess(img.picture, ModelShape[1], ModelShape[2])
         tr == transRes(res)
         b == boxes(tr)
     IN  pass' = [pass EXCEPT ![p] =
                    IF b.rank # 2
                    THEN Raised(@)   \* nonMaxSuppressionAsync takes 2-D boxes only
                    ELSE [@ EXCEPT !.pc = "nms",
                                   !.det = [boxes |-> b, scores |-> scores(tr),
                                            classes |-> classes(tr), ratios |-> ratios]]]
  /\ openScopes' = openScopes + 1
  /\ numTensors' = numTensors + 6   \* input, res, transRes, boxes, scores, classes
  /\ UNCHANGED <<model, apiToken, ImageOriginalWidth, ImageOriginalHeight,
                 typeMappings, img, nPasses, nMessages, remote, requests,
                 loadedMessages, fnIn, fnOut, tfConvention>>

\* the same, model.execute throwing
DetectThrows(p) ==
  /\ pass[p].pc = "updateValidBlockTypes"
  /\ pass' = [pass EXCEPT ![p] = Raised(@)]
  /\ openScopes' = openScopes + 1
  /\ numTensors' = numTensors + 1   \* input
  /\ UNCHANGED <<model, apiToken, ImageOriginalWidth, ImageOriginalHeight,
                 typeMappings, img, nPasses, nMessages, remote, requests,
                 loadedMessages, fnIn, fnOut, tfConvention>>

\* JSON.stringify(block) after block.document_part = pageId
Body(block) ==
  [box |-> block.box, typology |-> block.typology, document_part |-> PageId]

\* createBlocks up to its first await: the create of the first block is sent;
\* with no block it returns, and the try block of img.onload ends
createBlocksCall(ps, blocks) ==
  IF blocks = <<>> THEN Finished(ps)
  ELSE [ps EXCEPT !.pc = "createBlocks", !.det = <<>>, !.blocks = blocks,
                  !.k = 1, !.issued = 1]

createBlocksRequests(p, blocks) ==
  IF blocks = <<>> THEN requests
  ELSE [requests EXCEPT ![p] = Append(@, [method |-> "POST", body |-> Body(blocks[1])])]

\* the rest of detect, from the indices of nonMaxSuppressionAsync to the return
\* of renderBoxes, and createBlocks to its first await
NmsResolved(p) ==
  /\ pass[p].pc = "nms"
  /\ LET d == pass[p].det
         idx == nms(d.boxes, d.scores)
         blocks == renderBoxes(gatherBoxes(d.boxes, idx), gather(d.scores, idx),
                               gather(d.classes, idx), d.ratios,
                               ModelShape[1], ModelShape[2])
     IN  /\ pass' = [pass EXCEPT ![p] = createBlocksCall(@, blocks)]
         /\ requests' = createBlocksRequests(p, blocks)
  /\ numTensors' = numTensors + 4   \* nms and the three gathered tensors
  /\ UNCHANGED <<model, apiToken, ImageOriginalWidth, ImageOriginalHeight,
                 typeMappings, img, nPasses, nMessages, remote, openScopes,
                 loadedMessages, fnIn, fnOut, tfConvention>>

\* createBlocks going on to the next block after a create that failed
CreateBlocksResponse_noThrow(p, ok) ==
  /\ pass[p].pc = "createBlocks"
  /\ LET k == pass[p].k
         blocks == pass[p].blocks
     IN  /\ remote' = IF ok THEN [remote EXCEPT ![p] = Append(@, [body |-> Body(blocks[k])])]
                      ELSE remote
         /\ IF k < Len(blocks)
            THEN /\ pass' = [pass EXCEPT ![p] =
                               [@ EXCEPT !.k = k + 1, !.issued = @ + 1]]
                 /\ requests' = [requests EXCEPT ![p] =
                                   Append(@, [method |-> "POST",
                                              body |-> Body(blocks[k + 1])])]
            ELSE /\ pass' = [pass EXCEPT ![p] = Finished(@)]
                 /\ UNCHANGED requests
  /\ UNCHANGED <<model, apiToken, ImageOriginalWidth, ImageOriginalHeight,
                 typeMappings, img, nPasses, nMessages, numTensors, openScopes,
                 loadedMessages, fnIn, fnOut, tfConvention>>

\* createBlocks: the answer to the create of block k
CreateBlocksResponse(p, ok) ==
  /\ pass[p].pc = "createBlocks"
  /\ LET k == pass[p].k
         blocks == pass[p].blocks
     IN  IF ~ok
         THEN /\ pass' = [pass EXCEPT ![p] = Raised(@)]
              /\ UNCHANGED <<remote, requests>>
         ELSE /\ remote' = [remote EXCEPT ![p] = Append(@, [body |-> Body(blocks[k])])]
              /\ IF k < Len(blocks)
                 THEN /\ pass' = [pass EXCEPT ![p] =
                                    [@ EXCEPT !.k = k + 1, !.issued = @ + 1]]
                      /\ requests' = [requests EXCEPT ![p] =
                                        Append(@, [method |-> "POST",
                                                   body |-> Body(blocks[k + 1])])]
                 ELSE /\ pass' = [pass EXCEPT ![p] = Finished(@)]
                      /\ UNCHANGED requests
  /\ UNCHANGED <<model, apiToken, ImageOriginalWidth, ImageOriginalHeight,
                 typeMappings, img, nPasses, nMessages, numTensors, openScopes,
                 loadedMessages, fnIn, fnOut, tfConvention>>

Next ==
  \/ \E request \in Requests : ImageURLMessage(request)
  \/ \E m \in Models : LoadModel(m)
  \/ \E t \in Tokens \cup {""} : SetApiToken(t)
  \/ ImgLoad
  \/ \E p \in Passes, urlMatches \in BOOLEAN : GetBlocksUrlCallback(p, urlMatches)
  \/ \E p \in Passes, pk \in Pks \cup {"none"} : CreateTypesResponse(p, pk)
  \/ \E p \in Passes, res \in RawOutputs : DetectStart(p, res)
  \/ \E p \in Passes : DetectThrows(p)
  \/ \E p \in Passes : NmsResolved(p)
  \/ \E p \in Passes, ok \in BOOLEAN : CreateBlocksResponse(p, ok)

Spec == Init /\ [][Next]_vars

(***************************************************************************)
(* createBlocks on its own: calls with block lists of every length up to   *)
(* MaxBlocks, several calls running at once.                               *)
(***************************************************************************)
MaxBlocks == 3

BlockAt(n) ==
  [box |-> <<<<I(n), I(n)>>, <<I(n + 1), I(n)>>, <<I(n + 1), I(n + 1)>>, <<I(n), I(n + 1)>>>>,
   typology |-> "pk1"]
BlocksOfLen(n) == [k \in 1..n |-> BlockAt(k)]

CallCreateBlocks(p, blocks) ==
  /\ p = nPasses + 1
  /\ nPasses' = p
  /\ pass' = [pass EXCEPT ![p] = createBlocksCall([IdlePass EXCEPT !.apiToken = "tok"], blocks)]
  /\ requests' = createBlocksRequests(p, blocks)
  /\ UNCHANGED <<model, apiToken, ImageOriginalWidth, ImageOriginalHeight,
                 typeMappings, img, nMessages, remote, numTensors, openScopes,
                 loadedMessages, fnIn, fnOut, tfConvention>>

NextCreateBlocks ==
  \/ \E p \in Passes, n \in 0..MaxBlocks : CallCreateBlocks(p, BlocksOfLen(n))
  \/ \E p \in Passes, ok \in BOOLEAN : CreateBlocksResponse(p, ok)

SpecCreateBlocks == Init /\ [][NextCreateBlocks]_vars

(***************************************************************************)
(* The decoding of detect on its own, applied to raw outputs of up to      *)
(* MaxDecodeDet detections.                                                *)
(***************************************************************************)
MaxDecodeDet == 2

DecodeDets ==
  {<<I(cx), I(50), I(w), I(10), sa, sb>> :
     cx \in {3, 50}, w \in {1, 20}, sa \in {<<1, 10>>, <<9, 10>>}, sb \in {<<1, 10>>, <<9, 10>>}}

DecodeInputs ==
  UNION {{MkRes(d) : d \in [1..n -> DecodeDets]} : n \in 1..MaxDecodeDet}

InitDecode ==
  /\ InitPopup
  /\ tfConvention \in Conventions
  /\ fnIn \in DecodeInputs
  /\ fnOut = NotApplied

Decode ==
  /\ ~fnOut.done
  /\ fnOut' = Applied([boxes |-> boxes(transRes(fnIn)),
                       scores |-> scores(transRes(fnIn)),
                       classes |-> classes(transRes(fnIn))])
  /\ UNCHANGED <<popupVars, fnIn, tfConvention>>

SpecDecode == InitDecode /\ [][Decode]_vars

(***************************************************************************)
(* renderBoxes on its own, applied to up to MaxRenderBoxes surviving boxes *)
(* under several image sizes, model shapes and type maps.                  *)
(***************************************************************************)
MaxRenderBoxes == 2

RenderBoxSet == {<<I(0), I(0), I(4), I(4)>>, <<<<1, 2>>, I(1), <<5, 2>>, I(3)>>}
RenderPictures == {<<4, 4>>, <<4, 2>>, <<3, 4>>}
RenderShapes == {<<4, 4>>, <<4, 2>>}
RenderTypeMaps == {[l \in Labels |-> Undefined],
                   [l \in Labels |-> IF l = labels[1] THEN "pk1" ELSE "pk2"]}

Flatten(bs) == [k \in 1..(4 * Len(bs)) |-> bs[((k - 1) \div 4) + 1][((k - 1) % 4) + 1]]

RenderInputs ==
  UNION {{[boxes_data |-> Flatten(bs), scores_data |-> [k \in 1..n |-> <<9, 10>>],
           classes_data |-> cs, ratios |-> preprocess(pic, shape[1], shape[2]),
           modelWidth |-> shape[1], modelHeight |-> shape[2]] :
            bs \in [1..n -> RenderBoxSet], cs \in [1..n -> 0..(numClass - 1)],
            pic \in RenderPictures, shape \in RenderShapes} : n \in 1..MaxRenderBoxes}

InitRender ==
  /\ InitPopup!1 /\ InitPopup!2
  /\ ImageOriginalWidth \in {0, 4, 8}
  /\ ImageOriginalHeight \in {4, 8}
  /\ typeMappings \in RenderTypeMaps
  /\ img = [picture |-> <<>>, loading |-> <<>>, onload |-> [kind |-> "none", apiToken |-> ""]]
  /\ pass = [p \in Passes |-> IdlePass]
  /\ nPasses = 0 /\ nMessages = 0
  /\ remote = [p \in Passes |-> <<>>] /\ requests = [p \in Passes |-> <<>>]
  /\ numTensors = 0 /\ openScopes = 0 /\ loadedMessages = 0
  /\ tfConvention \in Conventions
  /\ fnIn \in RenderInputs
  /\ fnOut = NotApplied

Render ==
  /\ ~fnOut.done
  /\ fnOut' = Applied(renderBoxes(fnIn.boxes_data, fnIn.scores_data, fnIn.classes_data,
                                  fnIn.ratios, fnIn.modelWidth, fnIn.modelHeight))
  /\ UNCHANGED <<popupVars, fnIn, tfConvention>>

SpecRender == InitRender /\ [][Render]_vars

(***************************************************************************)
(* The suppression call of detect on its own, applied to up to MaxNmsDet   *)
(* detections, and to one row of maxOutputSize + 1 boxes that do not       *)
(* overlap, scores rising with the index.                                  *)
(***************************************************************************)
MaxNmsDet == 2

NmsBoxSet ==
  {<<I(0), I(0), I(2), I(2)>>, <<I(0), I(1), I(2), I(3)>>, <<I(0), I(0), I(2), I(3)>>,
   <<I(0), I(0), I(1), I(20)>>, <<I(0), I(0), I(1), I(9)>>}
NmsScoreSet == {<<1, 10>>, <<1, 5>>, <<4, 5>>, <<9, 10>>}

NmsInputs ==
  UNION {{[boxes |-> [rank |-> 2, data |-> Flatten(bs)], scores |-> sc] :
            bs \in [1..n -> NmsBoxSet], sc \in [1..n -> NmsScoreSet]} : n \in 1..MaxNmsDet}

RowInput(n) ==
  [boxes |-> [rank |-> 2,
              data |-> [k \in 1..(4 * n) |->
                          LET i == (k - 1) \div 4
                              c == (k - 1) % 4
                          IN  CASE c = 0 -> I(0)
                                [] c = 1 -> I(2 * i)
                                [] c = 2 -> I(1)
                                [] c = 3 -> I(2 * i + 1)]],
   scores |-> [k \in 1..n |-> <<n + k, 4 * n>>]]

InitNms ==
  /\ InitPopup
  /\ \/ tfConvention \in Conventions /\ fnIn \in NmsInputs
     \/ /\ tfConvention = [scoreInclusive |-> FALSE, iouInclusive |-> FALSE]
        /\ fnIn = RowInput(maxOutputSize + 1)
  /\ fnOut = NotApplied

Suppress ==
  /\ ~fnOut.done
  /\ fnOut' = Applied(nms(fnIn.boxes, fnIn.scores))
  /\ UNCHANGED <<popupVars, fnIn, tfConvention>>

SpecNms == InitNms /\ [][Suppress]_vars

(***************************************************************************)
(* Claims about the popup, checked under Spec.                             *)
(***************************************************************************)
InFlight == {"getBlocksUrl", "createTypes", "updateValidBlockTypes", "nms", "createBlocks"}
Ended == {"raised", "stuck"}

\* C1: no annotation returned by detect/renderBoxes, and none posted by
\* createBlocks, has a typology that is unmapped (undefined): a surviving
\* detection whose label has no entry in typeMappings makes the call fail.
C1_NoUnmappedAnnotation ==
  /\ \A p \in Passes : \A k \in DOMAIN pass[p].blocks :
       pass[p].blocks[k].typology # Undefined
  /\ \A p \in Passes : \A n \in DOMAIN requests[p] :
       requests[p][n].body.typology # Undefined
  /\ \A p \in Passes : \A n \in DOMAIN remote[p] :
       remote[p][n].body.typology # Undefined

\* C3: whenever no detect call is running, every tensor a detect call allocated
\* is disposed and every engine scope it started is ended.
C3_BuffersReleased ==
  (\A p \in Passes : pass[p].pc # "nms") => numTensors = 0 /\ openScopes = 0

\* C4: at most one pass of the onload pipeline is in flight at any time.
C4_AtMostOnePassInFlight ==
  Cardinality({p \in Passes : pass[p].pc \in InFlight}) <= 1

\* C8: with an original width or height that is zero or negative, the pass is
\* rejected with an error before preprocessing: detect allocates nothing,
\* executes nothing, and no annotation is created.
C8_InvalidGeometryRejected ==
  [][\A p \in Passes :
       (/\ pass[p].pc = "updateValidBlockTypes"
        /\ pass'[p].pc # "updateValidBlockTypes"
        /\ (ImageOriginalWidth <= 0 \/ ImageOriginalHeight <= 0))
       => /\ pass'[p].pc = "raised"
          /\ numTensors' = numTensors
          /\ openScopes' = openScopes]_vars

\* C9: a step of the pipeline that raises makes the caller display one error
\* message, and neither the success message nor the reload; the model is left
\* as it was.
C9_RaiseIsReported ==
  [][\A p \in Passes :
       (pass[p].pc \in InFlight /\ pass'[p].pc \in Ended)
       => /\ pass'[p].errors = pass[p].errors + 1
          /\ pass'[p].success = 0
          /\ pass'[p].reloads = 0
          /\ model' = model]_vars

\* C10: typeMappings is not written between the start of a detect call and the
\* return of its renderBoxes.
C10_MapReadOnlyDuringDetect ==
  [][(\E p \in Passes : pass[p].pc = "nms") => typeMappings' = typeMappings]_vars

(***************************************************************************)
(* Claims about createBlocks, checked under SpecCreateBlocks.              *)
(***************************************************************************)
CreatedBy(p) == remote[p]
SentBy(p) == requests[p]

\* C2: createBlocks sends the creates one at a time in the order of the blocks;
\* when the create of a block fails it raises at once, sends no create for a
\* later block, and the blocks created before stay created; every request it
\* sends is a create (no rollback).
C2_CreateBlocksStopsAtFailure ==
  \A p \in Passes :
    LET ps == pass[p]
        created == CreatedBy(p)
        sent == SentBy(p)
    IN  /\ Len(sent) = ps.issued
        /\ \A n \in 1..Len(sent) :
             sent[n].method = "POST" /\ sent[n].body = Body(ps.blocks[n])
        /\ Len(created) <= Len(sent)
        /\ Len(sent) <= Len(created) + 1
        /\ \A n \in 1..Len(created) : created[n].body = Body(ps.blocks[n])
        /\ ps.pc = "createBlocks" => Len(sent) = Len(created) + 1 /\ ps.k = Len(sent)
        /\ ps.pc = "raised" /\ ps.issued > 0 =>
             Len(created) = Len(sent) - 1 /\ ps.errors = 1 /\ ps.success = 0
        /\ ps.pc = "done" => Len(created) = Len(sent) /\ Len(sent) = Len(ps.blocks)

\* a call with three blocks whose second create failed: the first block stays
\* created, the third was never sent
C2_Witness ==
  \E p \in Passes :
    /\ pass[p].pc = "raised"
    /\ Len(pass[p].blocks) = 3
    /\ pass[p].issued = 2
    /\ Len(CreatedBy(p)) = 1

(***************************************************************************)
(* Claims about the decoding, checked under SpecDecode.                    *)
(***************************************************************************)
\* attribute a of detection i in the raw output's own layout [1, 4 + C, N]
RawAttr(res, i, a) == res.data[a * res.N + i + 1]

\* C5: detection i of a raw output shaped [1, 4 + C, N] is decoded to
\* (y1, x1, y2, x2) with x1 = cx - w/2, y1 = cy - h/2, x2 = x1 + w, y2 = y1 + h;
\* all N detections are decoded, whatever their scores, and boxes, scores and
\* classes are in the order of the detections; cx = 50, cy = 50, w = 20,
\* h = 10 gives (45, 40, 55, 60).
C5_BoxesDecoded ==
  fnOut.done =>
    LET out == fnOut.value
        N == fnIn.N
    IN  /\ Len(out.boxes.data) = 4 * N
        /\ Len(out.scores) = N
        /\ Len(out.classes) = N
        /\ \A i \in 0..(N - 1) :
             LET cx == RawAttr(fnIn, i, 0)
                 cy == RawAttr(fnIn, i, 1)
                 w == RawAttr(fnIn, i, 2)
                 h == RawAttr(fnIn, i, 3)
                 x1 == RSub(cx, RDiv(w, I(2)))
                 y1 == RSub(cy, RDiv(h, I(2)))
                 box == <<out.boxes.data[4 * i + 1], out.boxes.data[4 * i + 2],
                          out.boxes.data[4 * i + 3], out.boxes.data[4 * i + 4]>>
             IN  /\ box = <<y1, x1, RAdd(y1, h), RAdd(x1, w)>>
                 /\ (cx = I(50) /\ cy = I(50) /\ w = I(20) /\ h = I(10))
                      => box = <<I(45), I(40), I(55), I(60)>>
                 /\ out.classes[i + 1] \in 0..(numClass - 1)
                 /\ out.scores[i + 1] = RawAttr(fnIn, i, 4 + out.classes[i + 1])
                 /\ \A c \in 0..(numClass - 1) :
                      RLeq(RawAttr(fnIn, i, 4 + c), out.scores[i + 1])

\* two detections decoded, the second the one of the example, the first of
\* another place and no score above 1/10
C5_Witness ==
  /\ fnOut.done
  /\ fnIn.N = 2
  /\ RawAttr(fnIn, 0, 0) = I(3) /\ RawAttr(fnIn, 0, 2) = I(1)
  /\ fnOut.value.scores[1] = <<1, 10>>
  /\ RawAttr(fnIn, 1, 0) = I(50) /\ RawAttr(fnIn, 1, 2) = I(20)
  /\ fnOut.value.boxes.data[5] = I(45) /\ fnOut.value.boxes.data[6] = I(40)
  /\ fnOut.value.boxes.data[7] = I(55) /\ fnOut.value.boxes.data[8] = I(60)

(***************************************************************************)
(* Claims about renderBoxes, checked under SpecRender.                     *)
(***************************************************************************)
\* C6: a surviving box (y1, x1, y2, x2) becomes the polygon
\* (x1', y1') (x2', y1') (x2', y2') (x1', y2') with
\* x' = x * xRatio * (originalWidth / modelWidth) and
\* y' = y * yRatio * (originalHeight / modelHeight); with both ratios 1 and the
\* model and the original of one and the same square size the box maps to itself.
C6_PolygonRebased ==
  fnOut.done =>
    /\ Len(fnOut.value) = Len(fnIn.scores_data)
    /\ \A k \in 1..Len(fnOut.value) :
         LET y1 == fnIn.boxes_data[4 * k - 3]
             x1 == fnIn.boxes_data[4 * k - 2]
             y2 == fnIn.boxes_data[4 * k - 1]
             x2 == fnIn.boxes_data[4 * k]
             X(x) == RMul(RMul(x, fnIn.ratios[1]),
                          RDiv(I(ImageOriginalWidth), I(fnIn.modelWidth)))
             Y(y) == RMul(RMul(y, fnIn.ratios[2]),
                          RDiv(I(ImageOriginalHeight), I(fnIn.modelHeight)))
         IN  /\ fnOut.value[k].box =
                  <<<<X(x1), Y(y1)>>, <<X(x2), Y(y1)>>, <<X(x2), Y(y2)>>, <<X(x1), Y(y2)>>>>
             /\ (/\ fnIn.ratios = <<I(1), I(1)>>
                 /\ fnIn.modelWidth = fnIn.modelHeight
                 /\ ImageOriginalWidth = fnIn.modelWidth
                 /\ ImageOriginalHeight = fnIn.modelWidth)
                  => fnOut.value[k].box =
                       <<<<x1, y1>>, <<x2, y1>>, <<x2, y2>>, <<x1, y2>>>>

\* the box (1/2, 1, 5/2, 3) of a picture 4 wide and 2 high (yRatio 2), an
\* original of 8 by 8 and a model of 4 by 2: x scales by 2, y by 8
C6_Witness ==
  /\ fnOut.done
  /\ fnIn.ratios = <<I(1), I(2)>>
  /\ ImageOriginalWidth = 8 /\ ImageOriginalHeight = 8
  /\ fnIn.modelWidth = 4 /\ fnIn.modelHeight = 2
  /\ Len(fnOut.value) = 2
  /\ fnOut.value[2].box = <<<<I(2), I(4)>>, <<I(6), I(4)>>, <<I(6), I(20)>>, <<I(2), I(20)>>>>

(***************************************************************************)
(* Claims about the suppression call, checked under SpecNms.               *)
(***************************************************************************)
NmsBox(i) == BoxOf(fnIn.boxes.data, i)
NmsScore(i) == fnIn.scores[i + 1]
Selected == {fnOut.value[n] : n \in 1..Len(fnOut.value)}

\* what C7 says of the selected indices themselves
C7_SelectionSound ==
  LET sel == fnOut.value
  IN  /\ Len(sel) <= maxOutputSize
      /\ Cardinality(Selected) = Len(sel)
      /\ Selected \subseteq 0..(Len(fnIn.scores) - 1)
      /\ \A n \in 1..Len(sel) : RLeq(scoreThreshold, NmsScore(sel[n]))
      /\ \A n \in 1..(Len(sel) - 1) : RLeq(NmsScore(sel[n + 1]), NmsScore(sel[n]))
      /\ \A n \in 1..Len(sel) : \A m \in 1..(n - 1) :
           ~IoUExceeds(NmsBox(sel[m]), NmsBox(sel[n]), iouThreshold)
      /\ Len(fnIn.scores) = maxOutputSize + 1 =>
           sel = [n \in 1..maxOutputSize |-> maxOutputSize + 1 - n]

\* the two detections of scores 9/10 and 4/5, when that is the input
TwoBoxCase(hi, lo) ==
  /\ Len(fnIn.scores) = 2
  /\ {hi, lo} = {0, 1}
  /\ NmsScore(hi) = <<9, 10>>
  /\ NmsScore(lo) = <<4, 5>>

\* C7 as stated: besides C7_SelectionSound, a detection above the score
\* threshold is left out only if the cap was reached or a selected detection of
\* a higher score overlaps it with IoU > 0.45; of two boxes of scores 0.9 and
\* 0.8 only the first survives when their IoU exceeds the threshold, and both
\* when it does not.
C7_AsStated ==
  fnOut.done =>
    /\ C7_SelectionSound
    /\ \A i \in 0..(Len(fnIn.scores) - 1) :
         (RLess(scoreThreshold, NmsScore(i)) /\ i \notin Selected) =>
           \/ Len(fnOut.value) = maxOutputSize
           \/ \E j \in Selected :
                /\ RLess(NmsScore(i), NmsScore(j))
                /\ IoUExceeds(NmsBox(j), NmsBox(i), iouThreshold)
    /\ \A hi, lo \in {0, 1} :
         TwoBoxCase(hi, lo) =>
           fnOut.value = IF IoUExceeds(NmsBox(hi), NmsBox(lo), iouThreshold)
                         THEN <<hi>> ELSE <<hi, lo>>

\* C7, amended: the detection that suppresses is one taken before (its score is
\* at least as high, and at an equal score its index is lower) and overlaps
\* with IoU >= 0.45; both of the two boxes survive when their IoU is below the
\* threshold.
C7_GreedySuppression ==
  fnOut.done =>
    /\ C7_SelectionSound
    /\ \A i \in 0..(Len(fnIn.scores) - 1) :
         (RLess(scoreThreshold, NmsScore(i)) /\ i \notin Selected) =>
           \/ Len(fnOut.value) = maxOutputSize
           \/ \E j \in Selected :
                /\ Before(fnIn.scores, j, i)
                /\ \/ IoUExceeds(NmsBox(j), NmsBox(i), iouThreshold)
                   \/ IoUEquals(NmsBox(j), NmsBox(i), iouThreshold)
    /\ \A hi, lo \in {0, 1} :
         TwoBoxCase(hi, lo) =>
           /\ IoUExceeds(NmsBox(hi), NmsBox(lo), iouThreshold) => fnOut.value = <<hi>>
           /\ (/\ ~IoUExceeds(NmsBox(hi), NmsBox(lo), iouThreshold)
               /\ ~IoUEquals(NmsBox(hi), NmsBox(lo), iouThreshold))
                => fnOut.value = <<hi, lo>>

\* two boxes of scores 4/5 and 9/10 and IoU 2/3: the second alone is selected
C7_Witness ==
  /\ fnOut.done
  /\ TwoBoxCase(1, 0)
  /\ IoUExceeds(NmsBox(1), NmsBox(0), iouThreshold)
  /\ fnOut.value = <<1>>

====
